---- MODULE Spec2Model ----
(***************************************************************************)
(* Model of procesador_imagenes/base.c: the 3-level pixel store and its    *)
(* allocation / release (asignarMatriz3D, liberarMatriz3D, clonarMatriz3D, *)
(* cargarImagen, liberarImagen), the flattening of guardarPNG, the menu    *)
(* loop of main, the concurrent brightness adjustment                      *)
(* (ajustarBrilloConcurrente / ajustarBrilloHilo), the bilinear sampler    *)
(* (interpolacionBilineal) and the kernel of generarKernelGaussiano.       *)
(*                                                                         *)
(* Six specifications share the module:                                    *)
(*   Spec         main's menu loop over the heap                           *)
(*   SpecMatriz   a caller of asignarMatriz3D, liberarMatriz3D,            *)
(*                clonarMatriz3D and generarKernelGaussiano                *)
(*   SpecBrillo   one call of ajustarBrilloConcurrente and its threads     *)
(*   SpecBilineal interpolacionBilineal on bounded inputs                  *)
(*   SpecPlano    cargarImagen of a decoded buffer, then guardarPNG        *)
(*   SpecMuestra  the arithmetic of ajustarBrilloHilo on one sample        *)
(***************************************************************************)
EXTENDS Integers, Sequences, FiniteSets, TLC

VARIABLES
    heap,      \* the live malloc blocks: block |-> contents
    imagen,    \* main's ImagenInfo: [ancho, alto, canales, pixeles]
    pc,        \* where main is: "inicio", "menu", "cargar", "fin", "fallo", "crash";
               \* in the other specifications, where their caller is
    ultima,    \* what the last handler did: its frees, mallocs and bad accesses
    matriz,    \* SpecMatriz: the pointer asignarMatriz3D returned, with its sizes
    grid,      \* SpecBrillo: the pixels being adjusted, as they were, and the writes
    llamada,   \* SpecBrillo: the frame of ajustarBrilloConcurrente: pc, i, args[]
    hilos,     \* SpecBrillo: the worker threads: state and loop position
    bl,        \* SpecBilineal: the last call of interpolacionBilineal and its result
    plano,     \* SpecPlano: the decoder's buffer and the buffer handed to the encoder
    muestra,   \* SpecMuestra: one sample, the delta entered and the sample stored
    clon,      \* SpecMatriz: the pointer clonarMatriz3D returned, and the source then
    nucleo,    \* SpecMatriz: the pointer generarKernelGaussiano returned, its arguments
    historial  \* Spec: the invalid accesses of all the handlers run so far

varsMem == <<heap, imagen, pc, ultima, matriz>>
varsBrillo == <<grid, llamada, hilos>>
varsNuevas == <<plano, muestra, clon, nucleo>>
varsResto == <<varsNuevas, historial>>

(***************************************************************************)
(* Bounds of the model.                                                    *)
(***************************************************************************)
MaxAlto == 2
MaxAncho == 2
MaxAltoBrillo == 4
MaxAnchoBrillo == 2
MaxAltoBil == 2
MaxAnchoBil == 2
\* coordinates are multiples of 1/Fraccion, up to MargenBil pixels outside the grid
Fraccion == 2
MargenBil == 2
\* kernels have up to 2 * MaxOffsetKernel + 1 rows and columns
MaxOffsetKernel == 1

(***************************************************************************)
(* The heap.  A pointer is a 4-tuple; blocks are named by their place in   *)
(* the store they belong to (m), so that a leak or a double free shows.    *)
(* NULL is the null pointer and Basura the value of an uninitialised slot  *)
(* (malloc does not clear memory).                                         *)
(***************************************************************************)
NULL == <<"NULL", "", 0, 0>>
Basura == <<"basura", "", 0, 0>>
BFilas(m) == <<"filas", m, 0, 0>>
BCols(m, y) == <<"cols", m, y, 0>>
BChan(m, y, x) == <<"chan", m, y, x>>

\* an uninitialised sample byte
Indef == 0 - 1

\* The running state of one call: the heap, the trace of mallocs and frees,
\* the bad accesses, the number of mallocs tried, the malloc that fails
\* (0: none) and the value the last malloc returned.
Ejec(mem, falla) ==
    [mem |-> mem, log |-> <<>>, malos |-> {}, n |-> 0, falla |-> falla, ret |-> NULL]

Malo(e, que) == [e EXCEPT !.malos = @ \cup {que}]

\* p = malloc(...): the falla-th malloc of the call returns NULL
Malloc(e, b, contenido) ==
    LET k == e.n + 1 IN
    IF k = e.falla
    THEN [e EXCEPT !.n = k, !.ret = NULL]
    ELSE IF b \in DOMAIN e.mem
    THEN [Malo(e, "fuga") EXCEPT !.n = k, !.ret = b,
             !.mem = [c \in DOMAIN e.mem |-> IF c = b THEN contenido ELSE e.mem[c]],
             !.log = Append(@, <<"malloc", b>>)]
    ELSE [e EXCEPT !.n = k, !.ret = b,
             !.mem = (b :> contenido) @@ @,
             !.log = Append(@, <<"malloc", b>>)]

\* what a use of pointer p that is not a live block is
Invalido(p) ==
    IF p = NULL THEN "deref_null"
    ELSE IF p = Basura THEN "deref_basura" ELSE "uso_tras_free"

\* p[i] = v
Store(e, p, i, v) ==
    IF p \in DOMAIN e.mem /\ i \in DOMAIN e.mem[p]
    THEN [e EXCEPT !.mem[p][i] = v]
    ELSE Malo(e, Invalido(p))

\* free(q)
Free(e, q) ==
    IF q = NULL THEN e
    ELSE IF q = Basura THEN Malo(e, "free_basura")
    ELSE IF q \in DOMAIN e.mem
    THEN [e EXCEPT !.mem = [c \in DOMAIN e.mem \ {q} |-> e.mem[c]],
                   !.log = Append(@, <<"free", q>>)]
    ELSE Malo(e, "doble_free")

\* free(p[y])
FreeAt1(e, p, y) ==
    IF p \in DOMAIN e.mem /\ y \in DOMAIN e.mem[p]
    THEN Free(e, e.mem[p][y])
    ELSE Malo(e, Invalido(p))

\* free(p[y][x])
FreeAt2(e, p, y, x) ==
    IF p \in DOMAIN e.mem /\ y \in DOMAIN e.mem[p]
    THEN FreeAt1(e, e.mem[p][y], x)
    ELSE Malo(e, Invalido(p))

(***************************************************************************)
(* asignarMatriz3D and liberarMatriz3D.                                    *)
(***************************************************************************)
RECURSIVE LiberarPixeles(_, _, _, _, _)
\* for (x = desde; x < hasta; x++) free(p[y][x]);
LiberarPixeles(e, p, y, desde, hasta) ==
    IF desde >= hasta THEN e
    ELSE LiberarPixeles(FreeAt2(e, p, y, desde), p, y, desde + 1, hasta)

RECURSIVE LiberarFilasPrevias(_, _, _, _, _)
\* for (yy = desde; yy < hasta; yy++) { for (x < ancho) free(p[yy][x]); free(p[yy]); }
LiberarFilasPrevias(e, p, desde, hasta, ancho) ==
    IF desde >= hasta THEN e
    ELSE LiberarFilasPrevias(FreeAt1(LiberarPixeles(e, p, desde, 0, ancho), p, desde),
                             p, desde + 1, hasta, ancho)

\* the rollback when the columns of row y could not be allocated:
\* the rows before y with their pixels, then the row array; return NULL
RevertirFilas(e, matriz_, y, ancho) ==
    LET r1 == LiberarFilasPrevias(e, matriz_, 0, y, ancho)
        r2 == Free(r1, matriz_)
    IN [r2 EXCEPT !.ret = NULL]

\* a rollback that forgets the column array of the row it was filling
RevertirCanalesSinFila(e, matriz_, y, x, ancho) ==
    LET r1 == LiberarPixeles(e, matriz_, y, 0, x)
        r3 == LiberarFilasPrevias(r1, matriz_, 0, y, ancho)
        r4 == Free(r3, matriz_)
    IN [r4 EXCEPT !.ret = NULL]

\* the rollback when the channels of pixel (y, x) could not be allocated:
\* the pixels of row y before x, row y, the rows before y, the row array
RevertirCanales(e, matriz_, y, x, ancho) ==
    LET r1 == LiberarPixeles(e, matriz_, y, 0, x)
        r2 == FreeAt1(r1, matriz_, y)
        r3 == LiberarFilasPrevias(r2, matriz_, 0, y, ancho)
        r4 == Free(r3, matriz_)
    IN [r4 EXCEPT !.ret = NULL]

RECURSIVE AsignarCanales(_, _, _, _, _, _)
\* the level-3 loop of row y from column x on; on a failed malloc it rolls
\* back and leaves ret = NULL
AsignarCanales(e, m, y, x, ancho, canales) ==
    IF x >= ancho THEN e
    ELSE LET e1 == Malloc(e, BChan(m, y, x), [c \in 0..(canales - 1) |-> Indef])
             e2 == Store(e1, BCols(m, y), x, e1.ret)
         IN IF e1.ret = NULL
            THEN RevertirCanales(e2, BFilas(m), y, x, ancho)
            ELSE AsignarCanales(e2, m, y, x + 1, ancho, canales)

RECURSIVE AsignarFilas(_, _, _, _, _, _)
\* the level-2 loop from row y on
AsignarFilas(e, m, y, alto, ancho, canales) ==
    IF y >= alto THEN [e EXCEPT !.ret = BFilas(m)]
    ELSE LET e1 == Malloc(e, BCols(m, y), [x \in 0..(ancho - 1) |-> Basura])
             e2 == Store(e1, BFilas(m), y, e1.ret)
         IN IF e1.ret = NULL
            THEN RevertirFilas(e2, BFilas(m), y, ancho)
            ELSE LET e3 == AsignarCanales(e2, m, y, 0, ancho, canales)
                 IN IF e3.ret = NULL THEN e3
                    ELSE AsignarFilas(e3, m, y + 1, alto, ancho, canales)

\* unsigned char*** asignarMatriz3D(int alto, int ancho, int canales)
AsignarMatriz3D(e, m, alto, ancho, canales) ==
    IF alto <= 0 \/ ancho <= 0 \/ canales <= 0 THEN [e EXCEPT !.ret = NULL]
    ELSE LET e1 == Malloc(e, BFilas(m), [y \in 0..(alto - 1) |-> Basura])
         IN IF e1.ret = NULL THEN e1
            ELSE AsignarFilas(e1, m, 0, alto, ancho, canales)

RECURSIVE LiberarFilasSiNoNulas(_, _, _, _, _)
\* for (y < alto) if (matriz[y]) { for (x < ancho) free(matriz[y][x]); free(matriz[y]); }
LiberarFilasSiNoNulas(e, p, y, alto, ancho) ==
    IF y >= alto THEN e
    ELSE IF ~(p \in DOMAIN e.mem /\ y \in DOMAIN e.mem[p])
    THEN LiberarFilasSiNoNulas(Malo(e, Invalido(p)), p, y + 1, alto, ancho)
    ELSE IF e.mem[p][y] = NULL
    THEN LiberarFilasSiNoNulas(e, p, y + 1, alto, ancho)
    ELSE LiberarFilasSiNoNulas(FreeAt1(LiberarPixeles(e, p, y, 0, ancho), p, y),
                               p, y + 1, alto, ancho)

\* void liberarMatriz3D(unsigned char*** matriz, int alto, int ancho)
LiberarMatriz3D(e, p, alto, ancho) ==
    IF p = NULL THEN e
    ELSE Free(LiberarFilasSiNoNulas(e, p, 0, alto, ancho), p)

(***************************************************************************)
(* clonarMatriz3D.                                                         *)
(***************************************************************************)
\* p[y], and p[y][x]; through a pointer that is no live block the read
\* yields an uninitialised value
Fila(mem, p, y) ==
    IF p \in DOMAIN mem /\ y \in DOMAIN mem[p] THEN mem[p][y] ELSE Basura
Pixel(mem, p, y, x) == Fila(mem, Fila(mem, p, y), x)

\* p[y][x][c]
Leer3(mem, p, y, x, c) ==
    LET q == Pixel(mem, p, y, x)
    IN IF q \in DOMAIN mem /\ c \in DOMAIN mem[q] THEN mem[q][c] ELSE Indef

\* p[y][x][c] = v
Escribir3(e, p, y, x, c, v) == Store(e, Pixel(e.mem, p, y, x), c, v)

\* a copy that makes the rows of the clone point at the rows of the source
CopiarFilasCompartidas(e, clon_, origen, k, alto, ancho, canales) ==
    [e EXCEPT !.mem[clon_] = e.mem[origen], !.ret = clon_]

RECURSIVE CopiarMuestras(_, _, _, _, _, _, _)
\* for y, x, c: clon[y][x][c] = origen[y][x][c]; k counts the samples done
CopiarMuestras(e, clon_, origen, k, alto, ancho, canales) ==
    IF k >= alto * ancho * canales THEN [e EXCEPT !.ret = clon_]
    ELSE LET y == k \div (ancho * canales)
             x == (k \div canales) % ancho
             c == k % canales
         IN CopiarMuestras(Escribir3(e, clon_, y, x, c, Leer3(e.mem, origen, y, x, c)),
                           clon_, origen, k + 1, alto, ancho, canales)

\* unsigned char*** clonarMatriz3D(origen, alto, ancho, canales)
ClonarMatriz3D(e, m, origen, alto, ancho, canales) ==
    IF origen = NULL THEN [e EXCEPT !.ret = NULL]
    ELSE IF alto <= 0 \/ ancho <= 0 \/ canales <= 0 THEN [e EXCEPT !.ret = NULL]
    ELSE LET e1 == AsignarMatriz3D(e, m, alto, ancho, canales)
         IN IF e1.ret = NULL THEN e1
            ELSE CopiarMuestras(e1, e1.ret, origen, 0, alto, ancho, canales)

(***************************************************************************)
(* generarKernelGaussiano.  The function computes in float and double; the *)
(* model keeps of each value its class (zero, positive and finite,         *)
(* infinite, NaN) and, for a positive finite value, its binary logarithm   *)
(* in units of 1/EscalaLog, rounded down.  That is enough to follow the    *)
(* underflows and overflows of the computation and to tell taps of         *)
(* different magnitude apart; it does not follow the rounding of the last  *)
(* bits.  sigma is a power of two, 2^k, or a value that is not positive.   *)
(***************************************************************************)
EscalaLog == 1024
\* log2(pi) and log2(e) in units of 1/EscalaLog
Log2Pi == 1691
Log2E == 1477
\* exp(-t) is zero in double for t above 745.13
UmbralExp == 745
\* a float below 2^-150 rounds to zero; from 2^128 on it is infinite
ExpMinFloat == 0 - 150
ExpMaxFloat == 128

Cero == [clase |-> "cero", log |-> 0]
Inf == [clase |-> "inf", log |-> 0]
NaN == [clase |-> "nan", log |-> 0]
Positivo(l) == [clase |-> "pos", log |-> l]
Uno == Positivo(0)
Dos == Positivo(EscalaLog)

\* the conversion of a double to float
AFloat(v) ==
    IF v.clase # "pos" THEN v
    ELSE IF v.log >= ExpMaxFloat * EscalaLog THEN Inf
    ELSE IF v.log < ExpMinFloat * EscalaLog THEN Cero
    ELSE v

\* a * b of values that are not negative
Mul(a, b) ==
    IF a.clase = "nan" \/ b.clase = "nan" THEN NaN
    ELSE IF {a.clase, b.clase} = {"inf", "cero"} THEN NaN
    ELSE IF a.clase = "inf" \/ b.clase = "inf" THEN Inf
    ELSE IF a.clase = "cero" \/ b.clase = "cero" THEN Cero
    ELSE Positivo(a.log + b.log)

\* a / b of values that are not negative
Div(a, b) ==
    IF a.clase = "nan" \/ b.clase = "nan" THEN NaN
    ELSE IF a.clase = b.clase /\ a.clase \in {"inf", "cero"} THEN NaN
    ELSE IF b.clase = "inf" THEN Cero
    ELSE IF b.clase = "cero" THEN Inf
    ELSE IF a.clase \in {"inf", "cero"} THEN a
    ELSE Positivo(a.log - b.log)

\* a + b of values that are not negative; of a sum of positive values the
\* model keeps the logarithm of the largest
Sumar(a, b) ==
    IF a.clase = "nan" \/ b.clase = "nan" THEN NaN
    ELSE IF a.clase = "inf" \/ b.clase = "inf" THEN Inf
    ELSE IF a.clase = "cero" THEN b
    ELSE IF b.clase = "cero" THEN a
    ELSE Positivo(IF a.log >= b.log THEN a.log ELSE b.log)

\* sigma as a float: 2^k when positive, else zero or a negative number
\* (whose square is that of its magnitude)
SigmaFloat(sigma) ==
    IF sigma.signo = 0 THEN Cero ELSE Positivo(sigma.k * EscalaLog)

\* float constante = 1.0f / (2.0f * M_PI * sigma * sigma): M_PI is a double,
\* so the quotient is a double, converted to float by the assignment
Constante(sigma) ==
    AFloat(Div(Uno, Mul(Mul(Mul(Dos, Positivo(Log2Pi)), SigmaFloat(sigma)),
                        SigmaFloat(sigma))))

\* float denominador = 2.0f * sigma * sigma, in float
Denominador(sigma) == AFloat(Mul(AFloat(Mul(Dos, SigmaFloat(sigma))), SigmaFloat(sigma)))

\* a distance measured from the pixel to the right of the centre
DistanciaDescentrada(kx, ky) == (kx - 1) * (kx - 1) + ky * ky

\* kx * kx + ky * ky
DistanciaCuadrada(kx, ky) == kx * kx + ky * ky

\* exp(exponente), exponente = -r2 / denominador, a double.  denominador is
\* zero, infinite or a power of two 2^d: 0/0 is NaN, -r2/0 is -infinity,
\* -r2/infinity is -0, and else exp(-t) has the logarithm -t * log2(e)
ExpNeg(r2, den) ==
    IF den.clase = "nan" THEN NaN
    ELSE IF den.clase = "cero" THEN (IF r2 = 0 THEN NaN ELSE Cero)
    ELSE IF den.clase = "inf" \/ r2 = 0 THEN Uno
    ELSE LET d == den.log \div EscalaLog
         IN IF d >= 20 THEN Uno
            ELSE IF d >= 0 THEN Positivo(0 - ((r2 * Log2E) \div (2 ^ d)))
            ELSE IF 0 - d >= 10 THEN Cero
            ELSE IF r2 * (2 ^ (0 - d)) > UmbralExp THEN Cero
            ELSE Positivo(0 - (r2 * Log2E * (2 ^ (0 - d))))

\* float valor = constante * exp(exponente)
Valor(kx, ky, sigma) ==
    AFloat(Mul(Constante(sigma), ExpNeg(DistanciaCuadrada(kx, ky), Denominador(sigma))))

\* the taps as the double loop over ky, kx stores them:
\* kernel[ky + offset][kx + offset] = valor
KernelCrudo(tamKernel, sigma) ==
    LET offset == tamKernel \div 2
    IN [i \in 0..(tamKernel - 1) |-> [j \in 0..(tamKernel - 1) |->
          Valor(j - offset, i - offset, sigma)]]

RECURSIVE SumarTaps(_, _, _, _)
\* suma += valor over the taps from the n-th on, row by row
SumarTaps(taps, n, tamKernel, suma) ==
    IF n >= tamKernel * tamKernel THEN suma
    ELSE SumarTaps(taps, n + 1, tamKernel,
                   Sumar(suma, taps[n \div tamKernel][n % tamKernel]))

\* suma > 0.0f
MayorQueCero(v) == v.clase \in {"pos", "inf"}

\* if (suma > 0.0f) kernel[i][j] /= suma
Normalizar(taps, suma) ==
    IF MayorQueCero(suma)
    THEN [i \in DOMAIN taps |-> [j \in DOMAIN taps[i] |-> AFloat(Div(taps[i][j], suma))]]
    ELSE taps

\* the blocks of a kernel: the array of rows and the rows
BNucleo == <<"nucleo", "", 0, 0>>
BNucleoFila(i) == <<"nucleo_fila", "", i, 0>>

RECURSIVE LiberarFilasKernel(_, _, _)
\* for (j = desde; j < hasta; j++) free(kernel[j])
LiberarFilasKernel(e, desde, hasta) ==
    IF desde >= hasta THEN e
    ELSE LiberarFilasKernel(FreeAt1(e, BNucleo, desde), desde + 1, hasta)

RECURSIVE AsignarFilasKernel(_, _, _)
\* the loop that allocates the rows from row i on
AsignarFilasKernel(e, i, tamKernel) ==
    IF i >= tamKernel THEN [e EXCEPT !.ret = BNucleo]
    ELSE LET e1 == Malloc(e, BNucleoFila(i), [j \in 0..(tamKernel - 1) |-> Indef])
             e2 == Store(e1, BNucleo, i, e1.ret)
         IN IF e1.ret = NULL
            THEN [Free(LiberarFilasKernel(e2, 0, i), BNucleo) EXCEPT !.ret = NULL]
            ELSE AsignarFilasKernel(e2, i + 1, tamKernel)

\* a validation that looks at the size only
ParametrosInvalidosSoloTam(tamKernel, sigma) == tamKernel <= 0 \/ tamKernel % 2 = 0

\* tamKernel <= 0 || tamKernel % 2 == 0, and sigma <= 0.0f
ParametrosInvalidos(tamKernel, sigma) ==
    tamKernel <= 0 \/ tamKernel % 2 = 0 \/ sigma.signo <= 0

\* float** generarKernelGaussiano(int tamKernel, float sigma): the call's
\* state, the taps before the normalisation and their sum
GenerarKernelGaussiano(e, tamKernel, sigma) ==
    IF ParametrosInvalidos(tamKernel, sigma)
    THEN [e |-> [e EXCEPT !.ret = NULL], crudo |-> <<>>, suma |-> Cero]
    ELSE LET e1 == Malloc(e, BNucleo, [i \in 0..(tamKernel - 1) |-> Basura])
             e2 == IF e1.ret = NULL THEN e1 ELSE AsignarFilasKernel(e1, 0, tamKernel)
         IN IF e2.ret = NULL THEN [e |-> e2, crudo |-> <<>>, suma |-> Cero]
            ELSE LET crudo == KernelCrudo(tamKernel, sigma)
                     suma == SumarTaps(crudo, 0, tamKernel, Cero)
                     taps == Normalizar(crudo, suma)
                 IN [e |-> [e2 EXCEPT !.mem =
                              [b \in DOMAIN e2.mem |->
                                 IF b[1] = "nucleo_fila" THEN taps[b[3]] ELSE e2.mem[b]]],
                     crudo |-> crudo, suma |-> suma]

(***************************************************************************)
(* ImagenInfo, liberarImagen and cargarImagen.                             *)
(***************************************************************************)
\* ImagenInfo imagen = {0, 0, 0, NULL}
ImagenVacia == [ancho |-> 0, alto |-> 0, canales |-> 0, pixeles |-> NULL]

\* the name of the store of main's image
MImagen == "imagen"

RECURSIVE LiberarFilasImagen(_, _, _, _, _)
\* for (y < alto) { for (x < ancho) free(pixeles[y][x]); free(pixeles[y]); }
LiberarFilasImagen(e, p, y, alto, ancho) ==
    IF y >= alto THEN e
    ELSE LiberarFilasImagen(FreeAt1(LiberarPixeles(e, p, y, 0, ancho), p, y),
                            p, y + 1, alto, ancho)

\* a liberarImagen that frees the store and forgets info->pixeles = NULL
LiberarImagenSinNull(e, info) ==
    LET e1 == IF info.pixeles # NULL
              THEN Free(LiberarFilasImagen(e, info.pixeles, 0, info.alto, info.ancho),
                        info.pixeles)
              ELSE e
    IN [e |-> e1, info |-> [info EXCEPT !.ancho = 0, !.alto = 0, !.canales = 0]]

\* void liberarImagen(ImagenInfo* info): the call's state and the info after it
LiberarImagen(e, info) ==
    LET e1 == IF info.pixeles # NULL
              THEN Free(LiberarFilasImagen(e, info.pixeles, 0, info.alto, info.ancho),
                        info.pixeles)
              ELSE e
    IN [e |-> e1, info |-> ImagenVacia]

\* what stbi_load hands back: ok = FALSE is a NULL buffer, with *x and *y left
\* as they were; otherwise the sizes, the channel count of the file and the
\* flat buffer
Dato(base, paso, i) == (base + paso * i) % 256
Decodificado(ancho, alto, canales, base, paso) ==
    [ok |-> TRUE, ancho |-> ancho, alto |-> alto, canales |-> canales,
     datos |-> [i \in 0..(ancho * alto * canales - 1) |-> Dato(base, paso, i)]]
NoDecodificado ==
    [ok |-> FALSE, ancho |-> 0, alto |-> 0, canales |-> 0, datos |-> <<>>]

\* datos[i]; a read past the end of the buffer yields whatever lies there
LeerDato(datos, i) == IF i \in DOMAIN datos THEN datos[i] ELSE Indef

\* info->canales = (canales == 1 || canales == 3) ? canales : 1
ForzarCanales(canales) == IF canales = 1 \/ canales = 3 THEN canales ELSE 1

RECURSIVE CargarColumnas(_, _, _, _, _)
\* the loop over x of row y: malloc of the channels, then the copy of the samples
CargarColumnas(e, info, datos, y, x) ==
    IF x >= info.ancho THEN e
    ELSE LET e1 == Malloc(e, BChan(MImagen, y, x),
                          [c \in 0..(info.canales - 1) |-> Indef])
             e2 == Store(e1, BCols(MImagen, y), x, e1.ret)
         IN IF e1.ret = NULL
            THEN [e2 EXCEPT !.ret = NULL]
            ELSE LET e3 == [e2 EXCEPT !.mem[BChan(MImagen, y, x)] =
                              [c \in 0..(info.canales - 1) |->
                                 LeerDato(datos, (y * info.ancho + x) * info.canales + c)]]
                 IN CargarColumnas(e3, info, datos, y, x + 1)

RECURSIVE CargarFilas(_, _, _, _)
\* the loop over y; ret = NULL when a malloc failed (before the rollback)
CargarFilas(e, info, datos, y) ==
    IF y >= info.alto THEN [e EXCEPT !.ret = info.pixeles]
    ELSE LET e1 == Malloc(e, BCols(MImagen, y), [x \in 0..(info.ancho - 1) |-> Basura])
             e2 == Store(e1, BFilas(MImagen), y, e1.ret)
         IN IF e1.ret = NULL
            THEN [e2 EXCEPT !.ret = NULL]
            ELSE LET e3 == CargarColumnas(e2, info, datos, y, 0)
                 IN IF e3.ret = NULL THEN e3
                    ELSE CargarFilas(e3, info, datos, y + 1)

\* int cargarImagen(const char* ruta, ImagenInfo* info): [e, info, ok]
CargarImagen(e, info, dec) ==
    IF ~dec.ok THEN [e |-> e, info |-> info, ok |-> FALSE]
    ELSE LET i1 == [info EXCEPT !.ancho = dec.ancho, !.alto = dec.alto,
                                !.canales = ForzarCanales(dec.canales)]
             e1 == Malloc(e, BFilas(MImagen), [y \in 0..(i1.alto - 1) |-> Basura])
             i2 == [i1 EXCEPT !.pixeles = e1.ret]
         IN IF e1.ret = NULL
            THEN [e |-> e1, info |-> i2, ok |-> FALSE]
            ELSE LET e2 == CargarFilas(e1, i2, dec.datos, 0)
                 IN IF e2.ret = NULL
                    THEN LET r == LiberarImagen(e2, i2)
                         IN [e |-> r.e, info |-> r.info, ok |-> FALSE]
                    ELSE [e |-> e2, info |-> i2, ok |-> TRUE]

\* the block of guardarPNG's flat buffer datos1D
BPlano == <<"plano", "", 0, 0>>

\* an offset that strides the rows by the height instead of the width
IndiceGuardarPorAlto(info, y, x, c) == (y * info.alto + x) * info.canales + c

\* the offset at which guardarPNG stores sample (y, x, c):
\* (y * info->ancho + x) * info->canales + c
IndiceGuardar(info, y, x, c) == (y * info.ancho + x) * info.canales + c

\* the flat buffer guardarPNG builds:
\* for y, x, c: datos1D[(y*ancho + x)*canales + c] = pixeles[y][x][c]
Aplanar(mem, info) ==
    LET celdas == (0..(info.alto - 1)) \X (0..(info.ancho - 1)) \X (0..(info.canales - 1))
        indice(t) == IndiceGuardar(info, t[1], t[2], t[3])
    IN [i \in 0..(info.ancho * info.alto * info.canales - 1) |->
          IF \E t \in celdas : indice(t) = i
          THEN LET t == CHOOSE t \in celdas : indice(t) = i
               IN mem[mem[mem[info.pixeles][t[1]]][t[2]]][t[3]]
          ELSE Indef]

\* int guardarPNG(const ImagenInfo* info, const char* rutaSalida): the call's
\* state, the buffer handed to stbi_write_png (none when it was not reached)
\* and the value returned; codifica is what stbi_write_png answers
GuardarPNG(e, info, codifica) ==
    IF info.pixeles = NULL THEN [e |-> e, escrito |-> <<>>, llega |-> FALSE, ok |-> FALSE]
    ELSE LET e1 == Malloc(e, BPlano,
                          [i \in 0..(info.ancho * info.alto * info.canales - 1) |-> Indef])
         IN IF e1.ret = NULL
            THEN [e |-> e1, escrito |-> <<>>, llega |-> FALSE, ok |-> FALSE]
            ELSE LET datos1D == Aplanar(e1.mem, info)
                     e2 == [e1 EXCEPT !.mem[BPlano] = datos1D]
                 IN [e |-> Free(e2, BPlano), escrito |-> datos1D, llega |-> TRUE,
                     ok |-> codifica]

(***************************************************************************)
(* The brightness adjustment: the transform and the partition of the rows. *)
(***************************************************************************)
\* const int numHilos = 2
NumHilos == 2

\* nuevoValor = pixel + delta, clamped to 0..255
BrilloMuestra(v, delta) ==
    LET nuevoValor == v + delta
    IN IF nuevoValor < 0 THEN 0 ELSE IF nuevoValor > 255 THEN 255 ELSE nuevoValor

\* a rows-per-thread that rounds down instead of up
FilasPorHiloPiso(alto) == alto \div NumHilos

\* (int)ceil((double)info->alto / numHilos)
FilasPorHilo(alto) == (alto + NumHilos - 1) \div NumHilos

\* args[i].inicio = i * filasPorHilo
InicioHilo(i, alto) == i * FilasPorHilo(alto)

\* an end of range that is not capped at alto
FinHiloSinTope(i, alto) == (i + 1) * FilasPorHilo(alto)

\* args[i].fin = (i+1)*filasPorHilo < alto ? (i+1)*filasPorHilo : alto
FinHilo(i, alto) ==
    IF (i + 1) * FilasPorHilo(alto) < alto THEN (i + 1) * FilasPorHilo(alto) ELSE alto

(***************************************************************************)
(* main: the menu loop.  Each handler is one action; its inputs are what   *)
(* the decoder returns, which malloc of the call fails, and whether the    *)
(* process survives an invalid access (a free or a read through a NULL or  *)
(* an uninitialised pointer): it may as well crash there.                  *)
(***************************************************************************)
Bases == {100}
Pasos == {0, 37}
Deltas == {-150, 200}
CanalesArchivo == 1..4

Decodificados ==
    {NoDecodificado} \cup
    { Decodificado(w, h, n, b, p) :
        w \in 1..MaxAncho, h \in 1..MaxAlto, n \in CanalesArchivo, b \in Bases, p \in Pasos }

\* the mallocs cargarImagen makes for a decoded image: the rows, and per row
\* its columns and its pixels; malloc number 0 stands for "none fails"
Fallas(dec) == 0..(IF dec.ok THEN 1 + dec.alto * (1 + dec.ancho) ELSE 0)

\* the record of a call: its trace, its invalid accesses, whether one of its
\* mallocs failed, and whether it reported success
Registro(op, e, ok) ==
    [op |-> op, log |-> e.log, malos |-> e.malos,
     fallo |-> (e.falla # 0 /\ e.falla <= e.n), ok |-> ok]

\* after an invalid access the process either crashes or goes on
Supervivencias(malos) == IF malos = {} THEN {TRUE} ELSE BOOLEAN
Sigue(sobrevive, destino) == IF sobrevive THEN destino ELSE "crash"

\* if (argc > 1) { if (!cargarImagen(ruta, &imagen)) return EXIT_FAILURE; }
Inicio ==
    /\ pc = "inicio"
    /\ \/ /\ pc' = "menu"
          /\ UNCHANGED <<heap, imagen, ultima, historial>>
       \/ \E dec \in Decodificados : \E falla \in Fallas(dec) :
          \E r \in {CargarImagen(Ejec(heap, falla), imagen, dec)} :
          \E sobrevive \in Supervivencias(r.e.malos) :
               /\ heap' = r.e.mem
               /\ imagen' = r.info
               /\ ultima' = Registro("cargarImagen", r.e, r.ok)
               /\ historial' = historial \cup r.e.malos
               /\ pc' = Sigue(sobrevive, IF r.ok THEN "menu" ELSE "fallo")
    /\ UNCHANGED <<matriz, varsBrillo, bl, varsNuevas>>

\* case 1, first half: liberarImagen(&imagen)
OpcionCargarLibera ==
    /\ pc = "menu"
    /\ \E l \in {LiberarImagen(Ejec(heap, 0), imagen)} :
       \E sobrevive \in Supervivencias(l.e.malos) :
            /\ heap' = l.e.mem
            /\ imagen' = l.info
            /\ ultima' = Registro("liberarImagen", l.e, TRUE)
            /\ historial' = historial \cup l.e.malos
            /\ pc' = Sigue(sobrevive, "cargar")
    /\ UNCHANGED <<matriz, varsBrillo, bl, varsNuevas>>

\* case 1, second half: if (!cargarImagen(ruta, &imagen)) continue; break;
OpcionCargarCarga ==
    /\ pc = "cargar"
    /\ \E dec \in Decodificados : \E falla \in Fallas(dec) :
       \E r \in {CargarImagen(Ejec(heap, falla), imagen, dec)} :
       \E sobrevive \in Supervivencias(r.e.malos) :
            /\ heap' = r.e.mem
            /\ imagen' = r.info
            /\ ultima' = Registro("cargarImagen", r.e, r.ok)
            /\ historial' = historial \cup r.e.malos
            /\ pc' = Sigue(sobrevive, "menu")
    /\ UNCHANGED <<matriz, varsBrillo, bl, varsNuevas>>

\* case 2: mostrarMatriz(&imagen) only prints
OpcionMostrar ==
    /\ pc = "menu"
    /\ UNCHANGED <<heap, imagen, pc, ultima, matriz, varsBrillo, bl, varsResto>>

\* case 3: guardarPNG(&imagen, salida): flattens into a buffer of its own,
\* hands it to the encoder and frees it
OpcionGuardar ==
    /\ pc = "menu"
    /\ UNCHANGED <<heap, imagen, pc, ultima, matriz, varsBrillo, bl, varsResto>>

\* the rows changed by a call of ajustarBrilloConcurrente in which `creados`
\* threads were started: all of them when every thread started and was
\* joined; otherwise the function returned without joining, and each started
\* thread has done `hechas` of its rows so far.  (SpecBrillo follows the
\* threads step by step; here only the samples change, never the store.)
FilasAjustadas(alto, creados, hechas) ==
    IF creados = NumHilos THEN 0..(alto - 1)
    ELSE UNION { { y \in InicioHilo(i, alto)..(FinHilo(i, alto) - 1) :
                     y < InicioHilo(i, alto) + hechas } : i \in 0..(creados - 1) }

\* the heap with the samples of the rows `filas` of the image adjusted
BrilloFilas(mem, info, delta, filas) ==
    LET pixel(y, x) == mem[mem[info.pixeles][y]][x]
        cambiados == { pixel(y, x) : y \in filas, x \in 0..(info.ancho - 1) }
    IN [b \in DOMAIN mem |->
          IF b \in cambiados
          THEN [c \in DOMAIN mem[b] |-> BrilloMuestra(mem[b][c], delta)]
          ELSE mem[b]]

\* case 4: ajustarBrilloConcurrente(&imagen, delta)
OpcionBrillo ==
    /\ pc = "menu"
    /\ imagen.pixeles # NULL
    /\ \E delta \in Deltas, creados \in 0..NumHilos : 
       \E hechas \in (IF creados = NumHilos THEN {0} ELSE 0..imagen.alto) :
            heap' = BrilloFilas(heap, imagen, delta,
                                FilasAjustadas(imagen.alto, creados, hechas))
    /\ UNCHANGED <<imagen, pc, ultima, matriz, varsBrillo, bl, varsResto>>

\* case 4 with no image: "No hay imagen cargada."
OpcionBrilloSinImagen ==
    /\ pc = "menu"
    /\ imagen.pixeles = NULL
    /\ UNCHANGED <<heap, imagen, pc, ultima, matriz, varsBrillo, bl, varsResto>>

\* case 5: liberarImagen(&imagen); return EXIT_SUCCESS;
OpcionSalir ==
    /\ pc = "menu"
    /\ \E l \in {LiberarImagen(Ejec(heap, 0), imagen)} :
       \E sobrevive \in Supervivencias(l.e.malos) :
            /\ heap' = l.e.mem
            /\ imagen' = l.info
            /\ ultima' = Registro("liberarImagen", l.e, TRUE)
            /\ historial' = historial \cup l.e.malos
            /\ pc' = Sigue(sobrevive, "fin")
    /\ UNCHANGED <<matriz, varsBrillo, bl, varsNuevas>>

\* default, or input that is no number: the loop goes round
OpcionInvalida ==
    /\ pc = "menu"
    /\ UNCHANGED <<heap, imagen, pc, ultima, matriz, varsBrillo, bl, varsResto>>

\* the variables of the other specifications, at rest
BrilloParado ==
    /\ grid = [alto |-> 0, ancho |-> 0, canales |-> 0, px |-> <<>>, px0 |-> <<>>,
               escrituras |-> <<>>]
    /\ llamada = [pc |-> "fuera", i |-> 0, delta |-> 0, creados |-> 0, args |-> <<>>]
    /\ hilos = <<>>

BlNinguno ==
    [hecho |-> FALSE, alto |-> 0, ancho |-> 0, canales |-> 0, xn |-> 0, yn |-> 0,
     c |-> 0, x0 |-> 0, x1 |-> 0, y0 |-> 0, y1 |-> 0, resultado |-> 0]

MatrizNinguna == [ptr |-> NULL, alto |-> 0, ancho |-> 0, canales |-> 0]
HeapVacio == [b \in {} |-> <<>>]

PlanoNinguno == [etapa |-> "fuera", dec |-> NoDecodificado, escrito |-> <<>>]
MuestraNinguna == [hecho |-> FALSE, s |-> 0, delta |-> 0, resultado |-> 0]
ClonNinguno ==
    [ptr |-> NULL, origen |-> NULL, alto |-> 0, ancho |-> 0, canales |-> 0,
     clonado |-> FALSE, escrito |-> FALSE, origen0 |-> <<>>]
NucleoNinguno ==
    [ptr |-> NULL, tam |-> 0, sigma |-> [signo |-> 0, k |-> 0], suma |-> Cero,
     crudo |-> <<>>]

RestoParado ==
    /\ plano = PlanoNinguno
    /\ muestra = MuestraNinguna
    /\ clon = ClonNinguno
    /\ nucleo = NucleoNinguno
    /\ historial = {}

Init ==
    /\ heap = HeapVacio
    /\ imagen = ImagenVacia
    /\ pc = "inicio"
    /\ ultima = Registro("ninguna", Ejec(HeapVacio, 0), TRUE)
    /\ matriz = MatrizNinguna
    /\ BrilloParado
    /\ bl = BlNinguno
    /\ RestoParado

Next ==
    \/ Inicio
    \/ OpcionCargarLibera
    \/ OpcionCargarCarga
    \/ OpcionMostrar
    \/ OpcionGuardar
    \/ OpcionBrillo
    \/ OpcionBrilloSinImagen
    \/ OpcionSalir
    \/ OpcionInvalida

vars == <<varsMem, varsBrillo, bl, varsResto>>

Spec == Init /\ [][Next]_vars

(***************************************************************************)
(* SpecMatriz: a caller of the matrix helpers.  It allocates a matrix of   *)
(* any sizes (valid or not) with any one malloc failing, fills it, clones  *)
(* it, writes to the clone, releases either, and asks for a kernel.        *)
(***************************************************************************)
MMatriz == "matriz"
CanalesMatriz == {0, 1, 3}

\* matriz = asignarMatriz3D(alto, ancho, canales), before any cloning
AsignarMatriz ==
    /\ pc = "matriz"
    /\ heap = HeapVacio
    /\ clon = ClonNinguno
    /\ \E alto \in 0..MaxAlto, ancho \in 0..MaxAncho, canales \in CanalesMatriz :
       \E falla \in 0..(1 + alto * (1 + ancho)) :
       \E e \in {AsignarMatriz3D(Ejec(heap, falla), MMatriz, alto, ancho, canales)} :
            /\ heap' = e.mem
            /\ matriz' = [ptr |-> e.ret, alto |-> alto, ancho |-> ancho,
                          canales |-> canales]
            /\ ultima' = Registro("asignarMatriz3D", e, e.ret # NULL)
    /\ UNCHANGED <<imagen, pc, varsBrillo, bl, varsResto>>

\* liberarMatriz3D(matriz, alto, ancho); the caller then clears its pointer or
\* keeps it
LiberarMatriz ==
    /\ pc = "matriz"
    /\ ultima.op # "ninguna"
    /\ \E e \in {LiberarMatriz3D(Ejec(heap, 0), matriz.ptr, matriz.alto, matriz.ancho)} :
       \E olvida \in BOOLEAN :
            /\ heap' = e.mem
            /\ matriz' = IF olvida THEN [matriz EXCEPT !.ptr = NULL] ELSE matriz
            /\ ultima' = Registro("liberarMatriz3D", e, TRUE)
    /\ UNCHANGED <<imagen, pc, varsBrillo, bl, varsResto>>

MClon == "clon"

\* the samples of the store at p, as a grid
Muestras3D(mem, p, alto, ancho, canales) ==
    [y \in 0..(alto - 1) |-> [x \in 0..(ancho - 1) |-> [c \in 0..(canales - 1) |->
        Leer3(mem, p, y, x, c)]]]

\* the caller fills the matrix it allocated with samples
LlenarMatriz ==
    /\ pc = "matriz"
    /\ matriz.ptr \in DOMAIN heap
    /\ clon = ClonNinguno
    /\ Leer3(heap, matriz.ptr, 0, 0, 0) = Indef
    /\ \E base \in Bases, paso \in Pasos :
         heap' = [b \in DOMAIN heap |->
                    IF b[1] = "chan"
                    THEN [c \in DOMAIN heap[b] |->
                            Dato(base, paso, (b[3] * matriz.ancho + b[4]) * matriz.canales + c)]
                    ELSE heap[b]]
    /\ ultima' = Registro("llenar", Ejec(heap, 0), TRUE)
    /\ UNCHANGED <<imagen, pc, matriz, varsBrillo, bl, varsResto>>

\* the sizes a caller passes along with a matrix: its own, or one of them
\* replaced by zero or a negative number
TamanosPasados(m) ==
    {[alto |-> m.alto, ancho |-> m.ancho, canales |-> m.canales]} \cup
    UNION { { [alto |-> v, ancho |-> m.ancho, canales |-> m.canales],
              [alto |-> m.alto, ancho |-> v, canales |-> m.canales],
              [alto |-> m.alto, ancho |-> m.ancho, canales |-> v] } : v \in {0 - 1, 0} }

\* clon = clonarMatriz3D(matriz, alto, ancho, canales), of a matrix that is
\* allocated or NULL
ClonarMatriz ==
    /\ pc = "matriz"
    /\ ultima.op # "ninguna"
    /\ clon.ptr = NULL
    /\ matriz.ptr = NULL \/ matriz.ptr \in DOMAIN heap
    /\ \E t \in TamanosPasados(matriz) :
       \E falla \in 0..(1 + matriz.alto * (1 + matriz.ancho)) :
       \E e \in {ClonarMatriz3D(Ejec(heap, falla), MClon, matriz.ptr,
                                 t.alto, t.ancho, t.canales)} :
            /\ heap' = e.mem
            /\ clon' = [ptr |-> e.ret, origen |-> matriz.ptr, alto |-> t.alto,
                        ancho |-> t.ancho, canales |-> t.canales,
                        clonado |-> (e.ret # NULL), escrito |-> FALSE,
                        origen0 |-> Muestras3D(heap, matriz.ptr, matriz.alto,
                                               matriz.ancho, matriz.canales)]
            /\ ultima' = Registro("clonarMatriz3D", e, e.ret # NULL)
    /\ UNCHANGED <<imagen, pc, matriz, varsBrillo, bl, plano, muestra, nucleo, historial>>

\* the caller writes a sample of the clone: clon[y][x][c] = v
EscribirClon ==
    /\ pc = "matriz"
    /\ clon.ptr \in DOMAIN heap
    /\ ~clon.escrito
    /\ \E y \in 0..(clon.alto - 1), x \in 0..(clon.ancho - 1), c \in 0..(clon.canales - 1) :
       \E v \in {0, 255} :
       \E e \in {Escribir3(Ejec(heap, 0), clon.ptr, y, x, c, v)} :
            /\ heap' = e.mem
            /\ ultima' = Registro("escribir", e, TRUE)
    /\ clon' = [clon EXCEPT !.escrito = TRUE]
    /\ UNCHANGED <<imagen, pc, matriz, varsBrillo, bl, plano, muestra, nucleo, historial>>

\* liberarMatriz3D(clon, alto, ancho)
LiberarClon ==
    /\ pc = "matriz"
    /\ clon.ptr \in DOMAIN heap
    /\ \E e \in {LiberarMatriz3D(Ejec(heap, 0), clon.ptr, clon.alto, clon.ancho)} :
            /\ heap' = e.mem
            /\ ultima' = Registro("liberarMatriz3D", e, TRUE)
    /\ clon' = [clon EXCEPT !.ptr = NULL]
    /\ UNCHANGED <<imagen, pc, matriz, varsBrillo, bl, plano, muestra, nucleo, historial>>

\* the sizes and sigmas a caller asks a kernel for: sizes valid or not up
\* to 2 * MaxOffsetKernel + 1; sigma zero, negative, or 2^k with k around the
\* exponents at which sigma * sigma or the constant leave the float range
TamanosKernel == (0 - 1)..(2 * MaxOffsetKernel + 1)
ExponentesSigma == {0 - 76, 0 - 66, 0 - 65, 0 - 1, 0, 1, 63, 64, 73, 74}
Sigmas ==
    {[signo |-> 0, k |-> 0], [signo |-> 0 - 1, k |-> 0]} \cup
    { [signo |-> 1, k |-> k] : k \in ExponentesSigma }

\* kernel = generarKernelGaussiano(tamKernel, sigma), asked for at the start
\* or once a matrix has been filled; the caller of the model then stops
GenerarKernel ==
    /\ pc = "matriz"
    /\ ultima.op \in {"ninguna", "llenar"}
    /\ \E tamKernel \in TamanosKernel, sigma \in Sigmas :
       \E falla \in 0..(IF tamKernel > 0 THEN 1 + tamKernel ELSE 1) :
       \E r \in {GenerarKernelGaussiano(Ejec(heap, falla), tamKernel, sigma)} :
            /\ heap' = r.e.mem
            /\ nucleo' = [ptr |-> r.e.ret, tam |-> tamKernel, sigma |-> sigma,
                          suma |-> r.suma, crudo |-> r.crudo]
            /\ ultima' = Registro("generarKernelGaussiano", r.e, r.e.ret # NULL)
    /\ pc' = "nucleo"
    /\ UNCHANGED <<imagen, matriz, varsBrillo, bl, plano, muestra, clon, historial>>

InitMatriz ==
    /\ heap = HeapVacio
    /\ imagen = ImagenVacia
    /\ pc = "matriz"
    /\ ultima = Registro("ninguna", Ejec(HeapVacio, 0), TRUE)
    /\ matriz = MatrizNinguna
    /\ BrilloParado
    /\ bl = BlNinguno
    /\ RestoParado

NextMatriz ==
    \/ AsignarMatriz
    \/ LiberarMatriz
    \/ LlenarMatriz
    \/ ClonarMatriz
    \/ EscribirClon
    \/ LiberarClon
    \/ GenerarKernel

SpecMatriz == InitMatriz /\ [][NextMatriz]_vars

(***************************************************************************)
(* Properties of the store.                                                *)
(***************************************************************************)
\* how often event ev occurs in a trace
Cuenta(log, ev) == Cardinality({ i \in 1..Len(log) : log[i] = ev })
\* where event ev occurs in a trace
Pos(log, ev) == CHOOSE i \in 1..Len(log) : log[i] = ev

\* every level of the store at p is allocated: alto rows of ancho pixels of
\* canales samples
StoreCompleto(mem, p, alto, ancho, canales) ==
    /\ alto > 0 /\ ancho > 0 /\ canales > 0
    /\ p \in DOMAIN mem
    /\ DOMAIN mem[p] = 0..(alto - 1)
    /\ \A y \in 0..(alto - 1) :
         /\ mem[p][y] \in DOMAIN mem
         /\ DOMAIN mem[mem[p][y]] = 0..(ancho - 1)
         /\ \A x \in 0..(ancho - 1) :
              /\ mem[mem[p][y]][x] \in DOMAIN mem
              /\ DOMAIN mem[mem[mem[p][y]][x]] = 0..(canales - 1)
    /\ Cardinality(DOMAIN mem) = 1 + alto * (1 + ancho)

ImagenCompleta(mem, info) ==
    /\ info.canales \in {1, 3}
    /\ StoreCompleto(mem, info.pixeles, info.alto, info.ancho, info.canales)

\* every block a trace allocates it frees exactly once, and it frees no other
TrazaSaldada(log) ==
    \A i \in 1..Len(log) :
        /\ Cuenta(log, <<"malloc", log[i][2]>>) = 1
        /\ Cuenta(log, <<"free", log[i][2]>>) = 1

\* C5: when a malloc of cargarImagen fails, the rollback frees exactly the
\* blocks the call had allocated, each once, touches no slot that was not
\* yet allocated, and the call returns failure with no store reachable from
\* the ImagenInfo.
C5_RollbackLimpio ==
    (ultima.op = "cargarImagen" /\ ultima.fallo) =>
        /\ ultima.malos = {}
        /\ pc # "crash"
        /\ TrazaSaldada(ultima.log)
        /\ ~ultima.ok
        /\ imagen.pixeles = NULL
        /\ heap = HeapVacio

\* C6: asignarMatriz3D is all-or-nothing.  Whatever malloc fails, it returns
\* NULL having freed every block it allocated exactly once, with no invalid
\* free; when no malloc fails (and the sizes are valid) it returns a store
\* with every row, pixel and channel array allocated.
C6_AsignarTodoONada ==
    (ultima.op = "asignarMatriz3D") =>
        /\ ultima.malos = {}
        /\ ultima.fallo =>
             /\ matriz.ptr = NULL
             /\ TrazaSaldada(ultima.log)
             /\ heap = HeapVacio
        /\ (~ultima.fallo /\ matriz.alto > 0 /\ matriz.ancho > 0 /\ matriz.canales > 0) =>
             /\ matriz.ptr # NULL
             /\ StoreCompleto(heap, matriz.ptr, matriz.alto, matriz.ancho, matriz.canales)
             /\ \A i \in 1..Len(ultima.log) : ultima.log[i][1] = "malloc"

\* a failed allocation in the middle of a matrix that has several rows and
\* columns, after which something had to be rolled back
C6_Witness ==
    /\ ultima.op = "asignarMatriz3D"
    /\ ultima.fallo
    /\ matriz.alto = MaxAlto /\ matriz.ancho = MaxAncho
    /\ Len(ultima.log) >= 2 * (1 + MaxAncho + 1)

\* the blocks of the store at p
Bloques(mem, p, alto, ancho) ==
    {p} \cup { Fila(mem, p, y) : y \in 0..(alto - 1) }
        \cup { Pixel(mem, p, y, x) : y \in 0..(alto - 1), x \in 0..(ancho - 1) }

\* C14: a successful clonarMatriz3D(g) returns a store that shares no block
\* with g and whose samples equal g's; the clone operation, a later write to
\* a sample of the clone and the release of the clone leave every sample of
\* g as it was.
C14_CopiaProfunda ==
    (clon.clonado /\ matriz.ptr \in DOMAIN heap) =>
        /\ Muestras3D(heap, matriz.ptr, matriz.alto, matriz.ancho, matriz.canales)
             = clon.origen0
        /\ clon.ptr # NULL =>
             /\ Bloques(heap, clon.ptr, clon.alto, clon.ancho) \subseteq DOMAIN heap
             /\ Bloques(heap, clon.ptr, clon.alto, clon.ancho)
                  \cap Bloques(heap, matriz.ptr, matriz.alto, matriz.ancho) = {}
             /\ ~clon.escrito =>
                  Muestras3D(heap, clon.ptr, clon.alto, clon.ancho, clon.canales)
                    = clon.origen0

\* a grid of the largest size with distinct samples was cloned, a sample of
\* the clone was overwritten and the clone was released, the source living on
C14_Witness ==
    /\ clon.clonado /\ clon.escrito /\ clon.ptr = NULL
    /\ matriz.ptr \in DOMAIN heap
    /\ matriz.alto = MaxAlto /\ matriz.ancho = MaxAncho /\ matriz.canales = 3
    /\ Leer3(heap, matriz.ptr, 0, 0, 0) # Leer3(heap, matriz.ptr, 0, 0, 1)
    /\ Leer3(heap, matriz.ptr, 0, 0, 0) # Indef

\* a call that attempted no malloc and made no invalid access: whichever
\* malloc is set to fail, a first malloc would show in the trace or as the
\* failure
SinMalloc(registro) ==
    registro.log = <<>> /\ ~registro.fallo /\ registro.malos = {}

\* C13: asignarMatriz3D and clonarMatriz3D with a size or channel count that
\* is not positive (or a NULL source), and generarKernelGaussiano with a
\* size that is even or not positive or a sigma that is not positive, return
\* NULL having attempted no malloc and leave the heap and the caller's
\* matrix as they were.
C13_ErrorAntesDeAsignar ==
    [][ /\ (/\ ultima'.op = "asignarMatriz3D"
            /\ (matriz'.alto <= 0 \/ matriz'.ancho <= 0 \/ matriz'.canales <= 0)) =>
               (matriz'.ptr = NULL /\ SinMalloc(ultima') /\ heap' = heap)
        /\ (/\ ultima'.op = "clonarMatriz3D"
            /\ (clon'.origen = NULL \/ clon'.alto <= 0 \/ clon'.ancho <= 0
                  \/ clon'.canales <= 0)) =>
               (clon'.ptr = NULL /\ SinMalloc(ultima') /\ heap' = heap /\ matriz' = matriz)
        /\ (/\ ultima'.op = "generarKernelGaussiano"
            /\ (nucleo'.tam <= 0 \/ nucleo'.tam % 2 = 0 \/ nucleo'.sigma.signo <= 0)) =>
               (nucleo'.ptr = NULL /\ SinMalloc(ultima') /\ heap' = heap /\ matriz' = matriz)
      ]_vars

\* generarKernelGaussiano was asked for a kernel of odd size with a sigma that
\* is not positive while a matrix was allocated
C13_Witness ==
    /\ ultima.op = "generarKernelGaussiano"
    /\ nucleo.tam > 0 /\ nucleo.tam % 2 = 1 /\ nucleo.sigma.signo <= 0
    /\ nucleo.ptr = NULL
    /\ matriz.ptr \in DOMAIN heap

\* kernel[i][j] of the kernel returned
TapsNucleo == [i \in 0..(nucleo.tam - 1) |-> heap[heap[nucleo.ptr][i]]]

\* C16: for every odd tamKernel > 0 and every sigma > 0 the taps of the
\* kernel returned sum to 1 (in the magnitudes of the model: the sum of the
\* taps is positive and finite and has the magnitude of 1).
C16_SumaUno ==
    nucleo.ptr # NULL => SumarTaps(TapsNucleo, 0, nucleo.tam, Cero) = Uno

C7_VaciaOCompleta ==
    pc = "menu" =>
        \/ (imagen = ImagenVacia /\ heap = HeapVacio)
        \/ ImagenCompleta(heap, imagen)

\* C10: liberarImagen on a loaded grid frees every block exactly once, the
\* channel arrays of a row before its column array and every column array
\* before the row array, and leaves the empty state; on the empty state it
\* frees nothing and changes nothing, and so does a second call.
C10_LiberarImagen ==
    [][ (pc = "menu" /\ pc' \in {"cargar", "fin"}) =>
          /\ ImagenCompleta(heap, imagen) =>
               /\ ultima'.malos = {}
               /\ Len(ultima'.log) = Cardinality(DOMAIN heap)
               /\ \A b \in DOMAIN heap : Cuenta(ultima'.log, <<"free", b>>) = 1
               /\ \A y \in 0..(imagen.alto - 1) :
                    /\ Pos(ultima'.log, <<"free", BCols(MImagen, y)>>)
                         < Pos(ultima'.log, <<"free", BFilas(MImagen)>>)
                    /\ \A x \in 0..(imagen.ancho - 1) :
                         Pos(ultima'.log, <<"free", BChan(MImagen, y, x)>>)
                           < Pos(ultima'.log, <<"free", BCols(MImagen, y)>>)
               /\ heap' = HeapVacio
               /\ imagen' = ImagenVacia
          /\ imagen = ImagenVacia =>
               /\ ultima'.log = <<>> /\ ultima'.malos = {}
               /\ heap' = heap /\ imagen' = imagen
          /\ (ImagenCompleta(heap, imagen) \/ imagen = ImagenVacia) =>
               LiberarImagen(Ejec(heap', 0), imagen')
                 = [e |-> Ejec(heap', 0), info |-> imagen']
      ]_vars

\* C18: a run of the menu that ends with option 5 has freed every block it
\* allocated for an image store exactly once: a load starts from an empty
\* heap, the previous store released, and at the exit the heap is empty and
\* no handler of the run has freed a pointer that was no live block, freed
\* through one, or allocated over a store still held.
C18_TodoLiberadoUnaVez ==
    /\ pc = "cargar" => heap = HeapVacio
    /\ pc = "fin" => (heap = HeapVacio /\ imagen = ImagenVacia /\ historial = {})

\* liberarImagen has just released a loaded grid of several rows and columns
C10_Witness ==
    /\ pc \in {"cargar", "fin"}
    /\ ultima.op = "liberarImagen"
    /\ Len(ultima.log) = 1 + MaxAlto * (1 + MaxAncho)

(***************************************************************************)
(* SpecBrillo: one call of ajustarBrilloConcurrente(&imagen, delta) on a   *)
(* loaded image, with its worker threads interleaved sample by sample.     *)
(* grid.px is info->pixeles[y][x][c]; px0 keeps the samples as they were   *)
(* at the call and escrituras counts the writes to each sample.            *)
(***************************************************************************)
CanalesImagen == {1, 3}
Hilos == 0..(NumHilos - 1)

GridInicial(alto, ancho, canales, base, paso) ==
    LET px == [y \in 0..(alto - 1) |-> [x \in 0..(ancho - 1) |-> [c \in 0..(canales - 1) |->
                 Dato(base, paso, (y * ancho + x) * canales + c)]]]
    IN [alto |-> alto, ancho |-> ancho, canales |-> canales, px |-> px, px0 |-> px,
        escrituras |-> [y \in 0..(alto - 1) |-> [x \in 0..(ancho - 1) |->
                          [c \in 0..(canales - 1) |-> 0]]]]

\* no image loaded: info->pixeles == NULL
GridNinguno ==
    [alto |-> 0, ancho |-> 0, canales |-> 0, px |-> <<>>, px0 |-> <<>>, escrituras |-> <<>>]

InitBrillo ==
    /\ heap = HeapVacio
    /\ imagen = ImagenVacia
    /\ pc = "brillo"
    /\ ultima = Registro("ninguna", Ejec(HeapVacio, 0), TRUE)
    /\ matriz = MatrizNinguna
    /\ grid \in {GridNinguno} \cup
          { GridInicial(alto, ancho, canales, base, paso) :
              alto \in 1..MaxAltoBrillo, ancho \in 1..MaxAnchoBrillo,
              canales \in CanalesImagen, base \in Bases, paso \in Pasos }
    /\ \E delta \in Deltas :
         llamada = [pc |-> "llamar", i |-> 0, delta |-> delta, creados |-> 0,
                    args |-> <<>>]
    /\ hilos = [i \in Hilos |->
                  [estado |-> "sin_crear", y |-> 0, x |-> 0, c |-> 0, filas |-> {}]]
    /\ bl = BlNinguno
    /\ RestoParado

\* if (!info->pixeles) { printf(...); return; }
Llamar ==
    /\ llamada.pc = "llamar"
    /\ llamada' = [llamada EXCEPT !.pc = IF grid.alto = 0 THEN "retorno" ELSE "crear"]
    /\ UNCHANGED <<grid, hilos, varsMem, bl, varsResto>>

\* args[i] as the launch loop fills it
ArgsDe(i) ==
    [inicio |-> InicioHilo(i, grid.alto), fin |-> FinHilo(i, grid.alto),
     ancho |-> grid.ancho, canales |-> grid.canales, delta |-> llamada.delta]

\* one round of the launch loop in which pthread_create succeeds
CrearHilo ==
    /\ llamada.pc = "crear"
    /\ LET i == llamada.i
       IN /\ llamada' = [llamada EXCEPT
                           !.args = (i :> ArgsDe(i)) @@ @,
                           !.creados = i + 1,
                           !.i = IF i + 1 < NumHilos THEN i + 1 ELSE 0,
                           !.pc = IF i + 1 < NumHilos THEN "crear" ELSE "unir"]
          /\ hilos' = [hilos EXCEPT ![i].estado = "creado"]
    /\ UNCHANGED <<grid, varsMem, bl, varsResto>>

\* one round of the launch loop in which pthread_create fails: return
CrearHiloFalla ==
    /\ llamada.pc = "crear"
    /\ LET i == llamada.i
       IN llamada' = [llamada EXCEPT !.args = (i :> ArgsDe(i)) @@ @, !.pc = "retorno"]
    /\ UNCHANGED <<grid, hilos, varsMem, bl, varsResto>>

\* pthread_join(hilos[i], NULL) returns once thread i has terminated
UnirHilo ==
    /\ llamada.pc = "unir"
    /\ LET i == llamada.i
       IN /\ hilos[i].estado = "terminado"
          /\ hilos' = [hilos EXCEPT ![i].estado = "unido"]
          /\ llamada' = [llamada EXCEPT
                           !.i = i + 1,
                           !.pc = IF i + 1 < NumHilos THEN "unir" ELSE "retorno"]
    /\ UNCHANGED <<grid, varsMem, bl, varsResto>>

\* What thread i reads in *bArgs.  args[] lives in the frame of
\* ajustarBrilloConcurrente: once that has returned, the read is of a dead
\* frame and yields anything.  The model lets the row range read there be
\* any range of the grid; the delta read there is kept as it was written.
InicioLeido(i) ==
    IF llamada.pc # "retorno" THEN {llamada.args[i].inicio} ELSE 0..grid.alto
FinLeido(i) ==
    IF llamada.pc # "retorno" THEN {llamada.args[i].fin} ELSE 0..grid.alto
DeltaLeido(i) == llamada.args[i].delta

\* the thread starts: int y = bArgs->inicio
HiloInicia(i) ==
    /\ hilos[i].estado = "creado"
    /\ \E inicio \in InicioLeido(i) :
         hilos' = [hilos EXCEPT ![i].estado = "corriendo", ![i].y = inicio]
    /\ UNCHANGED <<grid, llamada, varsMem, bl, varsResto>>

\* the loop position after sample (y, x, c)
Siguiente(y, x, c) ==
    IF c + 1 < grid.canales THEN [y |-> y, x |-> x, c |-> c + 1]
    ELSE IF x + 1 < grid.ancho THEN [y |-> y, x |-> x + 1, c |-> 0]
    ELSE [y |-> y + 1, x |-> 0, c |-> 0]

\* one sample: pixeles[y][x][c] = clamp(pixeles[y][x][c] + delta)
HiloPaso(i) ==
    /\ hilos[i].estado = "corriendo"
    /\ LET h == hilos[i]
       IN \E fin \in FinLeido(i) :
            /\ h.y < fin
            /\ grid' = [grid EXCEPT
                          !.px[h.y][h.x][h.c] = BrilloMuestra(@, DeltaLeido(i)),
                          !.escrituras[h.y][h.x][h.c] = @ + 1]
            /\ LET s == Siguiente(h.y, h.x, h.c)
               IN hilos' = [hilos EXCEPT ![i].y = s.y, ![i].x = s.x, ![i].c = s.c,
                                         ![i].filas = @ \cup {h.y}]
    /\ UNCHANGED <<llamada, varsMem, bl, varsResto>>

\* y < bArgs->fin is false: return NULL
HiloTermina(i) ==
    /\ hilos[i].estado = "corriendo"
    /\ \E fin \in FinLeido(i) : hilos[i].y >= fin
    /\ hilos' = [hilos EXCEPT ![i].estado = "terminado"]
    /\ UNCHANGED <<grid, llamada, varsMem, bl, varsResto>>

NextBrillo ==
    \/ Llamar
    \/ CrearHilo
    \/ CrearHiloFalla
    \/ UnirHilo
    \/ \E i \in Hilos : HiloInicia(i)
    \/ \E i \in Hilos : HiloPaso(i)
    \/ \E i \in Hilos : HiloTermina(i)

SpecBrillo == InitBrillo /\ [][NextBrillo]_vars

(***************************************************************************)
(* Properties of the concurrent brightness adjustment.                     *)
(***************************************************************************)
\* the grid a single thread going row by row produces from px0
Secuencial(px0, delta) ==
    [y \in DOMAIN px0 |-> [x \in DOMAIN px0[y] |-> [c \in DOMAIN px0[y][x] |->
        BrilloMuestra(px0[y][x][c], delta)]]]

\* C1: when ajustarBrilloConcurrente returns, on every path, every worker it
\* started has been joined; none is still running or yet to run.
C1_TodosUnidos ==
    llamada.pc = "retorno" =>
        \A i \in Hilos : hilos[i].estado \in {"sin_crear", "unido"}

\* C2: when all workers start, the grid at the return equals the grid of a
\* single-threaded row-by-row application of the transform, and every sample
\* has been written exactly once, whatever the interleaving.
C2_IgualSecuencial ==
    (llamada.pc = "retorno" /\ llamada.creados = NumHilos) =>
        /\ grid.px = Secuencial(grid.px0, llamada.delta)
        /\ \A y \in 0..(grid.alto - 1), x \in 0..(grid.ancho - 1),
              c \in 0..(grid.canales - 1) : grid.escrituras[y][x][c] = 1

\* all workers ran and were joined on a grid whose rows do not divide evenly
C2_Witness ==
    /\ llamada.pc = "retorno"
    /\ llamada.creados = NumHilos
    /\ grid.alto = 3 /\ grid.ancho = MaxAnchoBrillo /\ grid.canales = 3
    /\ grid.px # grid.px0

\* C3: the row ranges handed to the workers satisfy 0 <= inicio <= fin <= alto,
\* are contiguous and disjoint, and cover exactly the rows 0..alto-1; no two
\* workers touch the same row.
C3_Particion ==
    LET args == llamada.args
        filas(i) == args[i].inicio..(args[i].fin - 1)
    IN /\ \A i \in DOMAIN args :
            /\ 0 <= args[i].inicio
            /\ args[i].inicio <= args[i].fin
            /\ args[i].fin <= grid.alto
            /\ (i = 0) => args[i].inicio = 0
            /\ (i + 1 \in DOMAIN args) => args[i].fin = args[i + 1].inicio
       /\ (DOMAIN args = Hilos) =>
            /\ UNION { filas(i) : i \in Hilos } = 0..(grid.alto - 1)
            /\ \A i, j \in Hilos : i # j => filas(i) \cap filas(j) = {}
       /\ \A i, j \in Hilos : i # j => hilos[i].filas \cap hilos[j].filas = {}

\* both workers were handed a range of an odd number of rows and have each
\* worked on rows of theirs
C3_Witness ==
    /\ DOMAIN llamada.args = Hilos
    /\ grid.alto = 3
    /\ \A i \in Hilos : hilos[i].filas # {}

\* C9: if worker i cannot be started, the rows of the ranges of workers i and
\* above are never modified, and at the return (and after) every row of the
\* workers started before i has been transformed.
C9_FalloParcial ==
    (llamada.pc = "retorno" /\ grid.alto > 0 /\ llamada.creados < NumHilos) =>
        LET i == llamada.creados
            hecho == Secuencial(grid.px0, llamada.delta)
        IN /\ \A y \in InicioHilo(i, grid.alto)..(grid.alto - 1) :
                grid.px[y] = grid.px0[y]
           /\ \A y \in 0..(InicioHilo(i, grid.alto) - 1) :
                grid.px[y] = hecho[y]

(***************************************************************************)
(* SpecBilineal: interpolacionBilineal.  A coordinate is the integer xn    *)
(* standing for the float xn / Fraccion; on such coordinates and 8-bit     *)
(* samples every float operation of the function is exact, so the model    *)
(* computes with integers over the common denominator Fraccion^2.          *)
(***************************************************************************)
\* what a read outside the grid, or a float-to-byte conversion of a value
\* outside 0..255, may yield
BytesCualesquiera == {0, 255}

\* (int)floor(x)
Piso(xn) == xn \div Fraccion

\* x0 and x1 (or y0 and y1) as lines 181-191 leave them, for a side of n pixels
Esquinas(xn, n) ==
    LET p0 == Piso(xn)
        p1 == p0 + 1
    IN [p0 |-> IF p0 < 0 THEN 0 ELSE p0,
        p1 |-> IF p1 >= n THEN n - 1 ELSE p1]

\* a read that takes the column for the row: img[x][y][c]
LeerTranspuesto(img, y, x, c, alto, ancho, basura) ==
    IF x \in 0..(alto - 1) /\ y \in 0..(ancho - 1) THEN img[x][y][c] ELSE basura

\* img[y][x][c]; outside the grid the read yields any byte
Leer(img, y, x, c, alto, ancho, basura) ==
    IF y \in 0..(alto - 1) /\ x \in 0..(ancho - 1) THEN img[y][x][c] ELSE basura

\* (unsigned char)(resultado + 0.5f), resultado = num / Fraccion^2: the
\* conversion truncates towards zero and is undefined outside 0..255
ABytes(num, basura) ==
    LET d == 2 * Fraccion * Fraccion
        n == 2 * num + Fraccion * Fraccion
    IN IF n <= 0 - d \/ n >= 256 * d THEN basura
       ELSE IF n < 0 THEN 0 ELSE n \div d

\* unsigned char interpolacionBilineal(img, x, y, c, ancho, alto)
InterpolacionBilineal(img, xn, yn, c, ancho, alto, basura) ==
    LET ex == Esquinas(xn, ancho)
        ey == Esquinas(yn, alto)
        a == xn - ex.p0 * Fraccion
        b == yn - ey.p0 * Fraccion
        v00 == Leer(img, ey.p0, ex.p0, c, alto, ancho, basura)
        v10 == Leer(img, ey.p0, ex.p1, c, alto, ancho, basura)
        v01 == Leer(img, ey.p1, ex.p0, c, alto, ancho, basura)
        v11 == Leer(img, ey.p1, ex.p1, c, alto, ancho, basura)
        num == (Fraccion - a) * (Fraccion - b) * v00 + a * (Fraccion - b) * v10
                 + (Fraccion - a) * b * v01 + a * b * v11
    IN [x0 |-> ex.p0, x1 |-> ex.p1, y0 |-> ey.p0, y1 |-> ey.p1,
        resultado |-> ABytes(num, basura)]

\* the grid sampled: ancho x alto pixels with distinct values
ImagenBil(alto, ancho, canales) == GridInicial(alto, ancho, canales, 100, 37).px

\* the arguments of a call: a grid of any size of the model and any
\* coordinate up to MargenBil pixels outside it
InitBilineal ==
    /\ heap = HeapVacio
    /\ imagen = ImagenVacia
    /\ pc = "bilineal"
    /\ ultima = Registro("ninguna", Ejec(HeapVacio, 0), TRUE)
    /\ matriz = MatrizNinguna
    /\ BrilloParado
    /\ \E alto \in 1..MaxAltoBil, ancho \in 1..MaxAnchoBil, canales \in CanalesImagen :
       \E xn \in (0 - MargenBil * Fraccion)..((ancho - 1 + MargenBil) * Fraccion),
          yn \in (0 - MargenBil * Fraccion)..((alto - 1 + MargenBil) * Fraccion),
          c \in 0..(canales - 1) :
         bl = [BlNinguno EXCEPT !.alto = alto, !.ancho = ancho, !.canales = canales,
                                !.xn = xn, !.yn = yn, !.c = c]
    /\ RestoParado

\* the call interpolacionBilineal(img, x, y, c, ancho, alto)
Muestrear ==
    /\ pc = "bilineal"
    /\ ~bl.hecho
    /\ \E basura \in BytesCualesquiera :
         LET r == InterpolacionBilineal(ImagenBil(bl.alto, bl.ancho, bl.canales),
                                        bl.xn, bl.yn, bl.c, bl.ancho, bl.alto, basura)
         IN bl' = [bl EXCEPT !.hecho = TRUE, !.x0 = r.x0, !.x1 = r.x1,
                             !.y0 = r.y0, !.y1 = r.y1, !.resultado = r.resultado]
    /\ UNCHANGED <<varsMem, varsBrillo, varsResto>>

NextBilineal == Muestrear

SpecBilineal == InitBilineal /\ [][NextBilineal]_vars

\* a coordinate clamped into the grid: min(max(x, 0), n - 1)
Acotar(xn, n) ==
    IF xn < 0 THEN 0 ELSE IF xn > (n - 1) * Fraccion THEN (n - 1) * Fraccion ELSE xn

\* C4: whatever the coordinate, the four indices x0, x1, y0, y1 with which
\* interpolacionBilineal reads the grid lie inside it.
C4_IndicesEnRango ==
    bl.hecho =>
        /\ bl.x0 \in 0..(bl.ancho - 1) /\ bl.x1 \in 0..(bl.ancho - 1)
        /\ bl.y0 \in 0..(bl.alto - 1) /\ bl.y1 \in 0..(bl.alto - 1)

\* C15: at an integer coordinate (x, y) inside the grid, the last column and
\* the last row included, interpolacionBilineal returns exactly grid[y][x][c].
C15_ExactoEnEnteros ==
    (/\ bl.hecho
     /\ bl.xn % Fraccion = 0 /\ bl.yn % Fraccion = 0
     /\ bl.xn \div Fraccion \in 0..(bl.ancho - 1)
     /\ bl.yn \div Fraccion \in 0..(bl.alto - 1)) =>
        /\ bl.resultado
             = ImagenBil(bl.alto, bl.ancho, bl.canales)[bl.yn \div Fraccion]
                                                       [bl.xn \div Fraccion][bl.c]
        /\ {bl.x0, bl.x1} \subseteq 0..(bl.ancho - 1)
        /\ {bl.y0, bl.y1} \subseteq 0..(bl.alto - 1)

\* the sample at the last column of the first row of the widest grid
C15_Witness ==
    /\ bl.hecho
    /\ bl.ancho = MaxAnchoBil /\ bl.alto = MaxAltoBil
    /\ bl.xn = (MaxAnchoBil - 1) * Fraccion /\ bl.yn = 0
    /\ bl.x0 = MaxAnchoBil - 1 /\ bl.x1 = MaxAnchoBil - 1
    /\ bl.resultado = ImagenBil(bl.alto, bl.ancho, bl.canales)[0][MaxAnchoBil - 1][bl.c]

\* C8: at a coordinate outside the grid interpolacionBilineal returns what
\* it returns at the coordinate clamped to the nearest border.
C8_ReplicaBorde ==
    (/\ bl.hecho
     /\ \/ bl.xn < 0 \/ bl.xn > (bl.ancho - 1) * Fraccion
        \/ bl.yn < 0 \/ bl.yn > (bl.alto - 1) * Fraccion) =>
        \A basura \in BytesCualesquiera :
            bl.resultado =
                InterpolacionBilineal(ImagenBil(bl.alto, bl.ancho, bl.canales),
                                      Acotar(bl.xn, bl.ancho), Acotar(bl.yn, bl.alto),
                                      bl.c, bl.ancho, bl.alto, basura).resultado

(***************************************************************************)
(* SpecPlano: a buffer the decoder returned is loaded by cargarImagen and  *)
(* the grid is then flattened by guardarPNG for the encoder.               *)
(***************************************************************************)
BasesPlano == {0, 100}
PasosPlano == {0, 1, 37}

\* what the decoder may return: no image, or an image of 1 to 4 channels
DecodificadosPlano ==
    {NoDecodificado} \cup
    { Decodificado(w, h, n, b, p) :
        w \in 1..MaxAncho, h \in 1..MaxAlto, n \in CanalesArchivo,
        b \in BasesPlano, p \in PasosPlano }

InitPlano ==
    /\ heap = HeapVacio
    /\ imagen = ImagenVacia
    /\ pc = "plano"
    /\ ultima = Registro("ninguna", Ejec(HeapVacio, 0), TRUE)
    /\ matriz = MatrizNinguna
    /\ BrilloParado
    /\ bl = BlNinguno
    /\ \E dec \in DecodificadosPlano :
         plano = [etapa |-> "decodificado", dec |-> dec, escrito |-> <<>>]
    /\ muestra = MuestraNinguna
    /\ clon = ClonNinguno
    /\ nucleo = NucleoNinguno
    /\ historial = {}

\* cargarImagen(ruta, &imagen)
CargarPlano ==
    /\ plano.etapa = "decodificado"
    /\ \E falla \in Fallas(plano.dec) :
       \E r \in {CargarImagen(Ejec(heap, falla), imagen, plano.dec)} :
            /\ heap' = r.e.mem
            /\ imagen' = r.info
            /\ ultima' = Registro("cargarImagen", r.e, r.ok)
            /\ plano' = [plano EXCEPT !.etapa = IF r.ok THEN "cargado" ELSE "no_cargado"]
    /\ UNCHANGED <<pc, matriz, varsBrillo, bl, muestra, clon, nucleo, historial>>

\* guardarPNG(&imagen, salida)
GuardarPlano ==
    /\ plano.etapa \in {"cargado", "no_cargado"}
    /\ \E falla \in 0..1, codifica \in BOOLEAN :
       \E g \in {GuardarPNG(Ejec(heap, falla), imagen, codifica)} :
            /\ heap' = g.e.mem
            /\ ultima' = Registro("guardarPNG", g.e, g.ok)
            /\ plano' = [plano EXCEPT !.etapa = IF g.llega THEN "guardado" ELSE "no_guardado",
                                      !.escrito = g.escrito]
    /\ UNCHANGED <<imagen, pc, matriz, varsBrillo, bl, muestra, clon, nucleo, historial>>

NextPlano ==
    \/ CargarPlano
    \/ GuardarPlano

SpecPlano == InitPlano /\ [][NextPlano]_vars

\* info->pixeles[y][x][c] of the loaded image
MuestraImagen(y, x, c) == heap[heap[heap[imagen.pixeles][y]][x]][c]

\* C11: for a buffer of 1 or 3 channels, the buffer guardarPNG builds from
\* the grid cargarImagen built equals the decoder's buffer at every index.
C11_IdaYVuelta ==
    (plano.etapa = "guardado" /\ plano.dec.canales \in {1, 3}) =>
        plano.escrito = plano.dec.datos

\* a 3-channel buffer of the largest size with distinct bytes made the trip
C11_Witness ==
    /\ plano.etapa = "guardado"
    /\ plano.dec.canales = 3
    /\ plano.dec.ancho = MaxAncho /\ plano.dec.alto = 1
    /\ plano.dec.datos[0] # plano.dec.datos[1]
    /\ plano.escrito = plano.dec.datos

\* C19: when the decoder reports a channel count other than 1 or 3, the
\* grid has 1 channel and sample [y][x][0] is the first byte of pixel (x, y)
\* of the decoder's buffer, buffer[(y*width + x) * n].
C19_CapaEspacial ==
    (plano.etapa \in {"cargado", "guardado"} /\ plano.dec.canales \notin {1, 3}) =>
        /\ imagen.canales = 1
        /\ \A y \in 0..(plano.dec.alto - 1), x \in 0..(plano.dec.ancho - 1) :
             MuestraImagen(y, x, 0)
               = plano.dec.datos[(y * plano.dec.ancho + x) * plano.dec.canales]

(***************************************************************************)
(* SpecMuestra: the arithmetic of ajustarBrilloHilo on one sample, with    *)
(* the width of its operands: the sample is an unsigned char, delta and    *)
(* nuevoValor are 32-bit ints.  BrilloMuestra above is that arithmetic     *)
(* when pixel + delta fits an int, as it does for the Deltas of the menu.  *)
(***************************************************************************)
IntMax == 2147483647
IntMin == 0 - IntMax - 1

\* the values of an unsigned char
Muestras == 0..255

\* what the user can type at "Valor de ajuste de brillo": any int; the model
\* takes the ends of the range, the values around the clamps and the menu's
DeltasInt ==
    {IntMin, IntMin + 1, 0 - 256, 0 - 255, 0 - 150, 0 - 1, 0, 1, 200, 255, 256,
     IntMax - 255, IntMax - 254, IntMax - 1, IntMax}

\* pixel + delta does not fit an int (pixel >= 0, so only at the top)
DesbordaInt(v, delta) == delta > IntMax - v

\* int nuevoValor = pixel + delta; pixel = clamp(nuevoValor).  Signed overflow
\* is undefined: a build that wraps stores 0, one that folds the two
\* comparisons into comparisons of delta stores 255.
AjustarMuestra(v, delta, basura) ==
    IF DesbordaInt(v, delta) THEN basura ELSE BrilloMuestra(v, delta)

InitMuestra ==
    /\ heap = HeapVacio
    /\ imagen = ImagenVacia
    /\ pc = "muestra"
    /\ ultima = Registro("ninguna", Ejec(HeapVacio, 0), TRUE)
    /\ matriz = MatrizNinguna
    /\ BrilloParado
    /\ bl = BlNinguno
    /\ plano = PlanoNinguno
    /\ \E s \in Muestras, delta \in DeltasInt :
         muestra = [hecho |-> FALSE, s |-> s, delta |-> delta, resultado |-> s]
    /\ clon = ClonNinguno
    /\ nucleo = NucleoNinguno
    /\ historial = {}

\* one round of the innermost loop of ajustarBrilloHilo
AjustarUnaMuestra ==
    /\ pc = "muestra"
    /\ ~muestra.hecho
    /\ \E basura \in BytesCualesquiera :
         muestra' = [muestra EXCEPT !.hecho = TRUE,
                        !.resultado = AjustarMuestra(muestra.s, muestra.delta, basura)]
    /\ UNCHANGED <<varsMem, varsBrillo, bl, plano, clon, nucleo, historial>>

NextMuestra == AjustarUnaMuestra

SpecMuestra == InitMuestra /\ [][NextMuestra]_vars

\* min(255, max(0, s + delta)) over the mathematical integers
AcotarSuma(s, delta) ==
    IF delta > 255 - s THEN 255 ELSE IF delta < 0 - s THEN 0 ELSE s + delta

\* C12: for every sample 0..255 and every int delta, ajustarBrilloHilo stores
\* min(255, max(0, s + delta)) computed over the mathematical integers.
C12_AcotadoExacto ==
    muestra.hecho => muestra.resultado = AcotarSuma(muestra.s, muestra.delta)

====
